---- MODULE Spec2Model ----
(***************************************************************************)
(* State-machine model of src/main.py: the control loop run_bot, the       *)
(* position manager (place_market_order, monitor_open_trades), the signal  *)
(* classifier check_signal, the notification channel send_telegram and the *)
(* status reader json_status that runs on the Flask thread.                *)
(*                                                                         *)
(* Conventions                                                             *)
(*  - Prices, tp and sl are whole dollars (the prices used are multiples   *)
(*    of 20, so entry * 1.05 and entry * 0.95 are whole: round(.., 2)      *)
(*    leaves them as they are).                                            *)
(*  - A quantity is a Python float that the code rounds to 5 decimals.  It *)
(*    is modelled as [u, e]: u is the number of 1e-5 units of the nearest  *)
(*    5-decimal value, e is the sign of the binary floating-point residue  *)
(*    that the in-place subtraction of line 112 leaves (0 for a value that *)
(*    comes straight out of round(.., 5)).  The residue is far below one   *)
(*    unit; which sign it takes depends on the operands' binary digits, so *)
(*    the model allows every sign.  Both signs occur: from 0.036 the code  *)
(*    reaches 9.999999999997543e-06 (below one unit) after six partial     *)
(*    closes, from 18.0 it reaches 1.1970269610597772e-17 (above zero)     *)
(*    after eleven.                                                        *)
(*  - Python lists and dicts are objects: lists is the heap of list        *)
(*    objects, dicts the heap of position dicts; trades, updated and       *)
(*    status.open_trades hold references into lists.                       *)
(*  - ev, orders, ledger0, snapshot, seen and slept are history            *)
(*    variables: they record what the code did and never steer it.         *)
(***************************************************************************)
EXTENDS Integers, Sequences, FiniteSets, TLC

\* ---------------------------------------------------------------- bounds
MaxCycles == 2      \* cycles of the while-loop that are explored
MaxTrades == 2      \* positions opened over a run (values of count)

\* ---------------------------------------------------------------- config
LEVERAGE == 90
MAX_TRADE_USD == 20
TP_PERCENT == 5     \* 0.05, in percent
SL_PERCENT == 5     \* 0.05, in percent

\* mark prices the venue may report: 5.7% apart, so
\* that one is beyond the other's take-profit and stop-loss levels, and so
\* high that an order is 3 or 2 units of the instrument precision and a
\* position runs through its whole life within the cycles explored
Prices == {70000000, 74000000}

\* indicator readings of a bar
MacdValues == {-12, 12}
MacdSignalValues == {0}
RsiValues == {20, 50, 80}

\* closes of the bars
Closes == {70000000}

Bars == [close : Closes, MACD : MacdValues, MACD_signal : MacdSignalValues,
         RSI20 : RsiValues]

\* data frames get_klines/apply_indicators may hand to check_signal
Frames == {<<>>} \cup {<<b>> : b \in Bars} \cup {<<a, b>> : a \in Bars, b \in Bars}

None == "None"
NoList == -1
ListIds == 0..2

VARIABLES
    pc,             \* position of run_bot
    cycle,          \* number of loop iterations begun (the clock `now`)
    trades,         \* run_bot's local: reference to the ledger list
    count,          \* run_bot's local
    signal,         \* run_bot's local
    current_price,  \* run_bot's local
    status,         \* the global status record
    lists,          \* heap of list objects
    dicts,          \* heap of position dicts, by trade number
    updated,        \* monitor_open_trades' local: reference or NoList
    price,          \* monitor_open_trades' local
    idx,            \* position of the for-loop of monitor_open_trades
    seen,           \* history: the last response of json_status against snapshot
    snapshot,       \* history: status as it was at the last status.update
    slept,          \* history: time.sleep ran since the last fetch
    ev,             \* history: calls made in the current cycle
    orders,         \* history: orders filled, per position
    ledger0,        \* history: the ledger at the start of the cycle
    frame,          \* the data frame handed to check_signal on its own
    order_qty       \* the value get_trade_quantity returns on its own

vars == <<pc, cycle, trades, count, signal, current_price, status, lists,
          dicts, updated, price, idx, seen, snapshot, slept, ev, orders,
          ledger0, frame, order_qty>>

\* ------------------------------------------------------------- quantities
Qty(u, e) == [u |-> u, e |-> e]

\* q > 0 on floats
Positive(q) == q.u > 0 \/ (q.u = 0 /\ q.e = 1)

\* round(x, 5) of x = num/den units, away from a tie
RoundDiv(num, den) == (2 * num + den) \div (2 * den)

\* get_trade_quantity: round((MAX_TRADE_USD * LEVERAGE) / price, 5)
get_trade_quantity(p) == Qty(RoundDiv(MAX_TRADE_USD * LEVERAGE * 100000, p), 0)

\* round(t["qty"] * 0.75, 5): the values the float rounding can produce.
\* Off a tie the nearest unit; on a tie (3u = 4k + 2) the binary value of
\* the product decides, so both neighbours are possible.
close_qty_of(q) ==
    IF (3 * q.u) % 4 = 2
    THEN {Qty((3 * q.u) \div 4, 0), Qty((3 * q.u) \div 4 + 1, 0)}
    ELSE {Qty(RoundDiv(3 * q.u, 4), 0)}

\* t["qty"] -= close_qty: the units subtract, the float residue is any sign.
\* The residue is recorded on a remainder of at most ResidueUnits units,
\* where a comparison of the code can see it (q > 0, a close of the whole
\* remainder); on a larger remainder it changes no comparison and is left 0.
ResidueUnits == 1
qty_minus(q, c) ==
    {Qty(q.u - c.u, e) : e \in IF q.u - c.u <= ResidueUnits THEN {-1, 0, 1} ELSE {0}}

\* ------------------------------------------------------------- classifier
\* lines 70-81, with the momentum test at the threshold
check_signal_at_threshold(df) ==
    LET last == df[Len(df)]
        prev == df[Len(df) - 1]
        macd_cross_up == prev.MACD < prev.MACD_signal /\ last.MACD > last.MACD_signal
        macd_cross_down == prev.MACD > prev.MACD_signal /\ last.MACD < last.MACD_signal
        momentum_up == (last.MACD - last.MACD_signal) >= 10
        momentum_down == (last.MACD_signal - last.MACD) >= 10
    IN  IF macd_cross_up /\ last.RSI20 < 70 /\ momentum_up THEN "BUY"
        ELSE IF macd_cross_down /\ last.RSI20 > 30 /\ momentum_down THEN "SELL"
        ELSE None
\* lines 70-81
check_signal(df) ==
    LET last == df[Len(df)]
        prev == df[Len(df) - 1]
        macd_cross_up == prev.MACD < prev.MACD_signal /\ last.MACD > last.MACD_signal
        macd_cross_down == prev.MACD > prev.MACD_signal /\ last.MACD < last.MACD_signal
        momentum_up == (last.MACD - last.MACD_signal) > 10
        momentum_down == (last.MACD_signal - last.MACD) > 10
    IN  IF macd_cross_up /\ last.RSI20 < 70 /\ momentum_up THEN "BUY"
        ELSE IF macd_cross_down /\ last.RSI20 > 30 /\ momentum_down THEN "SELL"
        ELSE None

\* ------------------------------------------------------------- collaborators
\* line 43: TELEGRAM_TOKEN and TELEGRAM_CHAT_ID are set (with either unset
\* send_telegram returns at once, which the loop cannot tell from "sent")
TELEGRAM == TRUE

\* outcomes of one call of send_telegram: requests.post returns or raises
send_telegram == IF TELEGRAM THEN {"sent", "raised"} ELSE {"skipped"}

\* outcomes of one call of client.futures_create_order
futures_create_order == {"filled", "raised"}

Event(t, k, p, q, r) == [t |-> t, k |-> k, p |-> p, q |-> q, r |-> r]
Raised(k) == Event("raise", k, 0, Qty(0, 0), "raised")
Notify(k, r) == Event("notify", k, 0, Qty(0, 0), r)
Order(k, p, q, r) == Event("order", k, p, q, r)

\* ------------------------------------------------------------- views
ListView(l) == [i \in 1..Len(lists[l]) |-> dicts[lists[l][i]]]
Ledger == ListView(trades)
StatusView == [bot_status |-> status.bot_status,
               last_checked |-> status.last_checked,
               last_price |-> status.last_price,
               last_signal |-> status.last_signal,
               open_trades |-> ListView(status.open_trades)]

\* list objects nothing refers to any more are released
Collect(ls, roots) == [l \in ListIds |-> IF l \in roots THEN ls[l] ELSE <<>>]
FreeList == CHOOSE l \in ListIds : l \notin {trades, status.open_trades}

\* ------------------------------------------------------------- Init
\* the state after lines 33-39 and 124-125, with run_bot at label l
InitWith(l, p, fr) ==
    /\ pc = l
    /\ cycle = 0
    /\ trades = 1
    /\ count = 1
    /\ signal = None
    /\ current_price = 0
    /\ status = [bot_status |-> "Starting...", last_checked |-> 0,
                 last_price |-> 0, last_signal |-> None, open_trades |-> 0]
    /\ lists = [l2 \in ListIds |-> <<>>]
    /\ dicts = <<>>
    /\ updated = NoList
    /\ price = p
    /\ idx = 0
    /\ seen = "none"
    /\ snapshot = [bot_status |-> "Starting...", last_checked |-> 0,
                   last_price |-> 0, last_signal |-> None, open_trades |-> <<>>]
    /\ slept = FALSE
    /\ ev = <<>>
    /\ orders = <<>>
    /\ ledger0 = <<>>
    /\ frame = fr
    /\ order_qty = Qty(0, 0)

Init == InitWith("fetch", 0, <<>>)

\* ------------------------------------------------------------- run_bot
\* an exception leaves the try block: locals of monitor_open_trades vanish
ToExcept(events) ==
    /\ pc' = "except"
    /\ ev' = ev \o events
    /\ updated' = NoList
    /\ price' = 0
    /\ idx' = 0

\* lines 128-132: get_klines, apply_indicators, check_signal
Fetch ==
    /\ pc = "fetch"
    /\ cycle < MaxCycles
    /\ cycle' = cycle + 1
    /\ slept' = FALSE
    /\ ledger0' = Ledger
    /\ \/ \* client.futures_klines raises
          /\ pc' = "except"
          /\ ev' = <<Raised("get_klines")>>
          /\ UNCHANGED <<signal, current_price>>
       \/ \E df \in Frames :
            IF Len(df) < 2
            THEN \* df.iloc[-2] raises IndexError
                 /\ pc' = "except"
                 /\ ev' = <<Raised("check_signal")>>
                 /\ UNCHANGED <<signal, current_price>>
            ELSE /\ check_signal(df) # None => count <= MaxTrades
                 /\ signal' = check_signal(df)
                 /\ current_price' = df[Len(df)].close
                 /\ pc' = "publish"
                 /\ ev' = <<>>
    /\ UNCHANGED <<frame, order_qty, trades, count, status, lists, dicts, updated,
                   price, idx, seen, snapshot, orders>>

\* lines 134-147: status.update, keep-alive, if signal
Publish ==
    /\ pc = "publish"
    /\ status' = [bot_status |-> "Running", last_checked |-> cycle,
                  last_price |-> current_price, last_signal |-> signal,
                  open_trades |-> trades]
    /\ lists' = Collect(lists, {trades})
    /\ snapshot' = [bot_status |-> "Running", last_checked |-> cycle,
                    last_price |-> current_price, last_signal |-> signal,
                    open_trades |-> Ledger]
    /\ pc' = IF signal # None THEN "open" ELSE "monitor"
    /\ UNCHANGED <<frame, order_qty, cycle, trades, count, signal, current_price,
                   dicts, updated, price, idx, seen, slept, ev, orders,
                   ledger0>>

\* the dict place_market_order returns (lines 94-98)
NewTrade(sig, entry, qty) ==
    [side |-> sig, entry |-> entry, qty |-> qty,
     tp |-> IF sig = "BUY" THEN entry + (entry * TP_PERCENT) \div 100
                           ELSE entry - (entry * TP_PERCENT) \div 100,
     sl |-> IF sig = "BUY" THEN entry - (entry * SL_PERCENT) \div 100
                           ELSE entry + (entry * SL_PERCENT) \div 100]

\* the position is appended before the order is sent
AppendThenRaise(sig, p, qty) ==
    /\ dicts' = Append(dicts, NewTrade(sig, p, qty))
    /\ lists' = [lists EXCEPT ![trades] = Append(@, count)]
    /\ orders' = Append(orders, [entry |-> 0, partial |-> 0, final |-> 0,
                                 opened |-> qty.u, closed |-> 0])
    /\ count' = count + 1

\* order['fills'][0]['price'] of an order sent at mark price p: the fill may
\* slip to any of the prices
FillPrices(p) == Prices

\* place_market_order raises: lines 149-150 are not reached
AbortOpen(sig, p, qty) == UNCHANGED <<lists, dicts, count, orders>>

\* lines 148-150: place_market_order, trades.append, count += 1
Open ==
    /\ pc = "open"
    /\ \/ \* client.futures_mark_price raises (line 89)
          /\ ToExcept(<<Raised("futures_mark_price")>>)
          /\ UNCHANGED <<lists, dicts, count, orders>>
       \/ \E p \in Prices, o \in futures_create_order :
            LET qty == get_trade_quantity(p) IN
            IF o = "raised"
            THEN /\ ToExcept(<<Order("entry", count, qty, o)>>)
                 /\ AbortOpen(signal, p, qty)
            ELSE \/ \* order['fills'][0]['price'] raises (line 92)
                    /\ ToExcept(<<Order("entry", count, qty, o), Raised("fills")>>)
                    /\ UNCHANGED <<lists, dicts, count, orders>>
                 \/ \E entry \in FillPrices(p), n \in send_telegram :
                      IF n = "raised"
                      THEN /\ ToExcept(<<Order("entry", count, qty, o), Notify("opened", n)>>)
                           /\ UNCHANGED <<lists, dicts, count, orders>>
                      ELSE /\ dicts' = Append(dicts, NewTrade(signal, entry, qty))
                           /\ lists' = [lists EXCEPT ![trades] = Append(@, count)]
                           /\ orders' = Append(orders, [entry |-> 1, partial |-> 0, final |-> 0,
                                                        opened |-> qty.u, closed |-> 0])
                           /\ count' = count + 1
                           /\ ev' = ev \o <<Order("entry", count, qty, o), Notify("opened", n)>>
                           /\ pc' = "monitor"
                           /\ UNCHANGED <<updated, price, idx>>
    /\ UNCHANGED <<frame, order_qty, cycle, trades, signal, current_price, status,
                   seen, snapshot, slept, ledger0>>

\* ------------------------------------------------------------- monitor_open_trades
\* lines 101-103: updated = [], mark price, balance
MonitorBegin ==
    /\ pc = "monitor"
    /\ \/ \* futures_mark_price or futures_account_balance raises
          /\ ToExcept(<<Raised("monitor_query")>>)
          /\ UNCHANGED lists
       \/ \E p \in Prices :
            /\ price' = p
            /\ updated' = FreeList
            /\ lists' = [lists EXCEPT ![FreeList] = <<>>]
            /\ idx' = 1
            /\ pc' = "loop"
            /\ UNCHANGED ev
    /\ UNCHANGED <<frame, order_qty, cycle, trades, count, signal, current_price,
                   status, dicts, seen, snapshot, slept, orders,
                   ledger0>>

\* line 106, cross-multiplied: pnl >= TP_PERCENT, pnl <= -SL_PERCENT
PnlNum(t, p) == IF t.side = "BUY" THEN (p - t.entry) * 100 ELSE (t.entry - p) * 100
TakeProfit(t, p) == PnlNum(t, p) >= TP_PERCENT * t.entry
StopLoss(t, p) == PnlNum(t, p) <= -(SL_PERCENT * t.entry)

\* the exception leaves monitor_open_trades: updated is dropped
MonitorRaise(events) ==
    /\ ToExcept(events)
    /\ lists' = Collect(lists, {trades, status.open_trades})

\* line 105: the for-loop takes the next element of trades
SameIndex(i) == i
NextIndex(i) == i + 1

\* line 112: t["qty"] -= close_qty writes the key "qty" of the dict, no other
MoveStop(t, q) == [t EXCEPT !.qty = q, !.sl = t.entry]
SetQty(t, q) == [t EXCEPT !.qty = q]

\* lines 105-119: one iteration of the for-loop
MonitorStep ==
    /\ pc = "loop"
    /\ idx <= Len(lists[trades])
    /\ LET id == lists[trades][idx]
           t == dicts[id]
       IN  IF TakeProfit(t, price)
           THEN \E c \in close_qty_of(t.qty), o \in futures_create_order :
                  IF o = "raised"
                  THEN /\ MonitorRaise(<<Order("tp", id, c, o)>>)
                       /\ UNCHANGED <<dicts, orders>>
                  ELSE /\ orders' = [orders EXCEPT ![id].partial = @ + 1,
                                                   ![id].closed = @ + c.u]
                       /\ \E n \in send_telegram :
                            IF n = "raised"
                            THEN /\ MonitorRaise(<<Order("tp", id, c, o), Notify("tp", n)>>)
                                 /\ UNCHANGED dicts
                            ELSE \E q \in qty_minus(t.qty, c) :
                                   /\ dicts' = [dicts EXCEPT ![id] = SetQty(t, q)]
                                   /\ lists' = IF Positive(q)
                                               THEN [lists EXCEPT ![updated] = Append(@, id)]
                                               ELSE lists
                                   /\ ev' = ev \o <<Order("tp", id, c, o), Notify("tp", n)>>
                                   /\ idx' = NextIndex(idx)
                                   /\ UNCHANGED <<pc, updated, price>>
           ELSE IF StopLoss(t, price)
           THEN \E o \in futures_create_order :
                  IF o = "raised"
                  THEN /\ MonitorRaise(<<Order("sl", id, t.qty, o)>>)
                       /\ UNCHANGED <<dicts, orders>>
                  ELSE /\ orders' = [orders EXCEPT ![id].final = @ + 1,
                                                   ![id].closed = @ + t.qty.u]
                       /\ UNCHANGED dicts
                       /\ \E n \in send_telegram :
                            IF n = "raised"
                            THEN MonitorRaise(<<Order("sl", id, t.qty, o), Notify("sl", n)>>)
                            ELSE /\ ev' = ev \o <<Order("sl", id, t.qty, o), Notify("sl", n)>>
                                 /\ idx' = NextIndex(idx)
                                 /\ UNCHANGED <<pc, updated, price, lists>>
           ELSE /\ lists' = [lists EXCEPT ![updated] = Append(@, id)]
                /\ idx' = NextIndex(idx)
                /\ UNCHANGED <<pc, updated, price, dicts, orders, ev>>
    /\ UNCHANGED <<frame, order_qty, cycle, trades, count, signal, current_price,
                   status, seen, snapshot, slept, ledger0>>

\* line 120 and the assignment of line 151
MonitorReturn ==
    /\ pc = "loop"
    /\ idx > Len(lists[trades])
    /\ trades' = updated
    /\ lists' = Collect(lists, {updated, status.open_trades})
    /\ updated' = NoList
    /\ price' = 0
    /\ idx' = 0
    /\ pc' = "sleep"
    /\ UNCHANGED <<frame, order_qty, cycle, count, signal, current_price, status,
                   dicts, seen, snapshot, slept, ev, orders,
                   ledger0>>

\* line 152: time.sleep(60)
Sleep ==
    /\ pc = "sleep"
    /\ slept' = TRUE
    /\ pc' = "fetch"
    /\ UNCHANGED <<frame, order_qty, cycle, trades, count, signal, current_price,
                   status, lists, dicts, updated, price, idx, seen, snapshot,
                   ev, orders, ledger0>>

\* lines 153-155: except Exception: print, send_telegram("Bot crashed")
\* An exception of send_telegram here is caught by nothing: run_bot ends.
Except ==
    /\ pc = "except"
    /\ \E n \in send_telegram :
         /\ ev' = Append(ev, Notify("crashed", n))
         /\ pc' = IF n = "raised" THEN "dead" ELSE "fetch"
    /\ UNCHANGED <<frame, order_qty, cycle, trades, count, signal, current_price,
                   status, lists, dicts, updated, price, idx, seen, snapshot,
                   slept, orders, ledger0>>

\* ------------------------------------------------------------- Flask thread
\* lines 174-176: jsonify(status), at any moment of the loop
json_status ==
    /\ seen' = IF StatusView = snapshot THEN "same" ELSE "differs"
    /\ seen' # seen
    /\ UNCHANGED <<frame, order_qty, pc, cycle, trades, count, signal, current_price,
                   status, lists, dicts, updated, price, idx, snapshot, slept,
                   ev, orders, ledger0>>

\* the control loop alone
Next ==
    \/ Fetch
    \/ Publish
    \/ Open
    \/ MonitorBegin
    \/ MonitorStep
    \/ MonitorReturn
    \/ Sleep
    \/ Except

Spec == Init /\ [][Next]_vars

\* the control loop and the Flask thread
NextServed ==
    \/ Next
    \/ json_status

SpecServed == Init /\ [][NextServed]_vars

\* ------------------------------------------------------------- check_signal alone
\* the indicator columns of a bar, around the thresholds 10, 30 and 70
ClassifierMacd == {-11, -10, 0, 10, 11, 12}
ClassifierMacdSignal == {0, 1}
ClassifierRsi == {30, 31, 69, 70}
ClassifierBars ==
    [MACD : ClassifierMacd, MACD_signal : ClassifierMacdSignal,
     RSI20 : ClassifierRsi, close : Closes]
\* a bar before the last two: MACD below its signal line, or above it
OlderBars ==
    {b \in ClassifierBars : b.RSI20 = 31 /\ b.MACD_signal = 0 /\ b.MACD \in {-11, 11}}
ClassifierFrames ==
    {<<b>> : b \in ClassifierBars}
      \cup {<<a, b>> : a \in ClassifierBars, b \in ClassifierBars}
      \cup {<<o, a, b>> : o \in OlderBars, a \in ClassifierBars, b \in ClassifierBars}

InitSignal == \E fr \in ClassifierFrames : InitWith("check_signal", 0, fr)

\* lines 70-81: one call of check_signal(df); df.iloc[-2] raises on one row
Classify ==
    /\ pc = "check_signal"
    /\ IF Len(frame) < 2
       THEN /\ pc' = "raised"
            /\ UNCHANGED signal
       ELSE /\ signal' = check_signal(frame)
            /\ pc' = "classified"
    /\ UNCHANGED <<frame, order_qty, cycle, trades, count, current_price, status,
                   lists, dicts, updated, price, idx, seen, snapshot, slept,
                   ev, orders, ledger0>>

NextSignal == Classify

SpecSignal == InitSignal /\ [][NextSignal]_vars

\* ------------------------------------------------------------- get_trade_quantity alone
\* mark prices: the one of the worked example and a ladder up to 490 million
MarkPrices == {50000} \cup {k * 7000000 : k \in 1..70}

InitQuantity == \E p \in MarkPrices : InitWith("get_trade_quantity", p, <<>>)

\* lines 84-85, as place_market_order calls it at lines 88-89
Size ==
    /\ pc = "get_trade_quantity"
    /\ order_qty' = get_trade_quantity(price)
    /\ pc' = "sized"
    /\ UNCHANGED <<frame, cycle, trades, count, signal, current_price, status,
                   lists, dicts, updated, price, idx, seen, snapshot, slept,
                   ev, orders, ledger0>>

NextQuantity == Size

SpecQuantity == InitQuantity /\ [][NextQuantity]_vars

TypeOK ==
    /\ pc \in {"fetch", "publish", "open", "monitor", "loop", "sleep", "except", "dead",
               "check_signal", "classified", "raised", "get_trade_quantity", "sized"}
    /\ cycle \in 0..MaxCycles
    /\ count \in 1..(MaxTrades + 1)
    /\ trades \in ListIds
    /\ updated \in ListIds \cup {NoList}
    /\ Len(dicts) = count - 1
    /\ Len(orders) = count - 1

\* ------------------------------------------------------------- properties
Range(f) == {f[i] : i \in DOMAIN f}
OrderEvents == {e \in Range(ev) : e.t = "order"}
NotifyEvents == {i \in DOMAIN ev : ev[i].t = "notify"}
\* the pass of monitor_open_trades of this cycle is not running
PassOver == pc \in {"sleep", "except", "fetch", "dead"}

\* C1: when the close order of one position fails in a Monitor pass and other
\* positions follow it in the ledger, the pass goes on to the next position,
\* and the ledger (the failed position's quantity included) is as before.
CloseRejectedStep ==
    /\ pc = "loop"
    /\ Len(ev') = Len(ev) + 1
    /\ ev'[Len(ev')].t = "order"
    /\ ev'[Len(ev')].r = "raised"
C1_FailedCloseDoesNotBlockPass ==
    [][(CloseRejectedStep /\ idx < Len(lists[trades]))
         => (pc' = "loop" /\ idx' = idx + 1 /\ Ledger' = Ledger)]_vars

\* C2: the control loop never reaches a terminal state, also when the error
\* report of a failed cycle cannot be delivered.
C2_NoTerminalState == pc # "dead"

\* C3: over a position's life exactly one entry order, at most one
\* partial-close order and at most one final-close order are filled.
C3_OneOrderOfEachKind ==
    \A id \in DOMAIN orders :
        /\ orders[id].entry = 1
        /\ orders[id].partial <= 1
        /\ orders[id].final <= 1

\* C4: a stop-loss close order is for the position's full remaining quantity,
\* and once the pass is over the position is not in the ledger.
C4_StopLossClosesAndRemoves ==
    PassOver =>
        \A e \in OrderEvents :
            (e.k = "sl" /\ e.r = "filled") =>
                /\ e.q = dicts[e.p].qty
                /\ e.p \notin Range(lists[trades])

\* C5: whether or not the notification is delivered, a position whose entry
\* order was filled (and its fill price read) is recorded, and a position
\* whose take-profit orders were filled holds its entry quantity less the
\* quantities closed.
C5_NotificationFailureKeepsState ==
    /\ \A i \in NotifyEvents :
           ev[i].k = "opened" => ev[i - 1].p < count
    /\ \A id \in DOMAIN orders :
           orders[id].final = 0 =>
               dicts[id].qty.u = orders[id].opened - orders[id].closed

\* C6: after a cycle whose market-data fetch failed the ledger is as it was
\* at the start of the cycle, no order was issued, exactly one notification
\* was emitted and the loop is at the fetch of the following cycle.
FetchFailed == Len(ev) >= 1 /\ ev[1] = Raised("get_klines")
C6_FetchFailureCycle ==
    (FetchFailed /\ pc # "except") =>
        /\ Ledger = ledger0
        /\ OrderEvents = {}
        /\ Cardinality(NotifyEvents) = 1
        /\ pc = "fetch"

\* C7: no two consecutive market-data fetches happen without a sleep
\* between them.
C7_SleepBetweenFetches == (pc = "fetch" /\ cycle > 0) => slept

\* C8: what json_status returns is the status as it was when status.update
\* published it.
C8_ReaderSeesSnapshot == seen # "differs"

\* C9: in a cycle in which Open or Monitor fails, the status readers see is
\* not one written by that cycle.
OpenOrMonitorFailed ==
    /\ pc \in {"except", "dead"}
    /\ Len(ev) >= 1
    /\ ev[1].k \notin {"get_klines", "check_signal"}
C9_FailedCycleKeepsStatus == OpenOrMonitorFailed => status.last_checked < cycle

\* C10: when the entry order of Open fails, the ledger after the cycle is the
\* ledger before it and no PositionOpened notification is emitted.
EntryRejected == \E e \in OrderEvents : e.k = "entry" /\ e.r = "raised"
C10_FailedOpenAborts ==
    EntryRejected =>
        /\ Ledger = ledger0
        /\ \A i \in NotifyEvents : ev[i].k # "opened"
C10_Witness == EntryRejected /\ pc = "fetch" /\ Len(ledger0) >= 1

\* C11: outside the for-loop of a Monitor pass every position in the ledger
\* has a quantity strictly greater than zero (a position whose quantity
\* reached zero, or fell below it, is not in the ledger of the next cycle).
C11_LedgerQuantitiesPositive ==
    pc # "loop" => \A i \in DOMAIN Ledger : Positive(Ledger[i].qty)

\* C12: a take-profit close order is for exactly 75% of the quantity the
\* position holds when the order is sent, and never for more than that
\* quantity.
TakeProfitOrderStep ==
    /\ pc = "loop"
    /\ Len(ev') > Len(ev)
    /\ ev'[Len(ev) + 1].t = "order"
    /\ ev'[Len(ev) + 1].k = "tp"
C12_TakeProfitClosesThreeQuarters ==
    [][TakeProfitOrderStep =>
         LET c == ev'[Len(ev) + 1].q
             q == dicts[ev'[Len(ev) + 1].p].qty
         IN  /\ 4 * c.u = 3 * q.u
             /\ (c.u < q.u \/ (c.u = q.u /\ q.e >= 0))]_vars

\* C13: a cycle whose frame has fewer than two bars is not an error to the
\* loop: it does not reach the except handler and emits no error
\* notification.
ShortFrame == Len(ev) >= 1 /\ ev[1] = Raised("check_signal")
C13_ShortFrameIsNotAnError ==
    ShortFrame =>
        /\ pc \notin {"except", "dead"}
        /\ \A i \in NotifyEvents : ev[i].k # "crashed"

\* C14: on a frame of two or more bars, with prev and last its last two
\* bars, check_signal returns BUY exactly when MACD crosses above its signal
\* line, the last RSI is below 70 and MACD exceeds the signal line by more
\* than 10; SELL exactly when it crosses below, the last RSI is above 30 and
\* the signal line exceeds MACD by more than 10; None otherwise. The two are
\* never both satisfied, and the result is the one of the last two bars alone.
LastBar == frame[Len(frame)]
PrevBar == frame[Len(frame) - 1]
BuyCondition ==
    /\ PrevBar.MACD < PrevBar.MACD_signal
    /\ LastBar.MACD > LastBar.MACD_signal
    /\ LastBar.RSI20 < 70
    /\ LastBar.MACD - LastBar.MACD_signal > 10
SellCondition ==
    /\ PrevBar.MACD > PrevBar.MACD_signal
    /\ LastBar.MACD < LastBar.MACD_signal
    /\ LastBar.RSI20 > 30
    /\ LastBar.MACD_signal - LastBar.MACD > 10
C14_ClassifierRule ==
    pc = "classified" =>
        /\ signal = "BUY" <=> BuyCondition
        /\ signal = "SELL" <=> SellCondition
        /\ signal = None <=> (~BuyCondition /\ ~SellCondition)
        /\ ~(BuyCondition /\ SellCondition)
        /\ signal = check_signal(<<PrevBar, LastBar>>)
C14_Witness ==
    /\ pc = "classified"
    /\ signal = "SELL"
    /\ Len(frame) = 3
    /\ LastBar.RSI20 = 31
    /\ LastBar.MACD_signal - LastBar.MACD = 11

\* C15: get_trade_quantity returns (MAX_TRADE_USD * LEVERAGE) / price rounded
\* to 5 decimals, 0.036 at the price 50000, and the quantity is greater than
\* zero at every mark price.
C15_QuantityPositive ==
    pc = "sized" =>
        /\ order_qty = Qty(RoundDiv(20 * 90 * 100000, price), 0)
        /\ price = 50000 => order_qty.u = 3600
        /\ Positive(order_qty)

\* C16: in one pass of monitor_open_trades every position is handled at most
\* once: the positions handled are the ones before the loop index, a position
\* is kept at most once, and at most one close order (take-profit or
\* stop-loss, never both, never the same twice) is sent for a position.
CloseOrdersFor(id) ==
    {i \in DOMAIN ev : ev[i].t = "order" /\ ev[i].k \in {"tp", "sl"} /\ ev[i].p = id}
KeptAt(id) == {i \in DOMAIN lists[updated] : lists[updated][i] = id}
C16_OneCloseOrderPerPass ==
    /\ \A id \in DOMAIN dicts : Cardinality(CloseOrdersFor(id)) <= 1
    /\ pc = "loop" =>
          \A id \in DOMAIN dicts :
              /\ Cardinality(KeptAt(id)) <= 1
              /\ (KeptAt(id) # {} \/ CloseOrdersFor(id) # {}) =>
                    \E i \in 1..(idx - 1) : i <= Len(lists[trades]) /\ lists[trades][i] = id
C16_Witness ==
    /\ pc = "sleep"
    /\ \E a, b \in DOMAIN dicts :
          /\ \E i \in CloseOrdersFor(a) : ev[i].k = "tp" /\ ev[i].r = "filled"
          /\ \E i \in CloseOrdersFor(b) : ev[i].k = "sl" /\ ev[i].r = "filled"

\* C17: at the end of a cycle that completed without error the open_trades
\* of the status are the ledger as Open and Monitor of that cycle left it.
C17_StatusListsLedger ==
    pc = "sleep" => ListView(status.open_trades) = Ledger

\* C18: no step changes the side, entry, tp or sl of a position that exists;
\* a position that is kept after a take-profit partial close is compared
\* against the same two thresholds in the passes that follow.
C18_OnlyQuantityChanges ==
    [][\A id \in DOMAIN dicts :
          /\ dicts'[id].side = dicts[id].side
          /\ dicts'[id].entry = dicts[id].entry
          /\ dicts'[id].tp = dicts[id].tp
          /\ dicts'[id].sl = dicts[id].sl]_vars
C18_Witness ==
    /\ pc = "sleep"
    /\ cycle = 2
    /\ \E i \in DOMAIN lists[trades] :
          LET id == lists[trades][i]
          IN  /\ orders[id].partial = 1
              /\ CloseOrdersFor(id) = {}
              /\ dicts[id].qty.u < orders[id].opened
              /\ dicts[id].tp # dicts[id].entry
              /\ dicts[id].sl # dicts[id].entry

\* C19: the close orders filled for a position never add up to more than
\* the quantity of its entry order.
C19_NeverOverClosed ==
    \A id \in DOMAIN orders : orders[id].closed <= orders[id].opened

====
